---- MODULE Spec2Model ----
(***************************************************************************)
(* A model of projects/whydense/scalar_sdrs.py: Monte-Carlo estimation of  *)
(* the match probability of random sparse scalar vectors.                  *)
(*                                                                         *)
(* Representation choices                                                  *)
(*  - Tensor entries are integers counting quanta: a weight range of       *)
(*    1.0/kw is Quanta quanta wide, so a sample of uniform_(-r, r) is an   *)
(*    integer in -r..r.  The uniform distributions are continuous, a       *)
(*    sampled entry is taken to be non-zero.                               *)
(*  - A tensor of shape (m, n) is a sequence of runs [row, c]: c           *)
(*    consecutive rows equal to row.  The run lengths add up to m.         *)
(*  - A Python float that is a ratio of two integers is the reduced        *)
(*    fraction <<num, den>>.                                               *)
(*  - A call returns [exc |-> "none", val |-> v] or raises                 *)
(*    [exc |-> name, val |-> <<>>].                                        *)
(*  - Every random draw of a call is an explicit argument rnd, chosen by   *)
(*    the calling action.                                                  *)
(***************************************************************************)
EXTENDS Integers, Sequences, FiniteSets, TLC

VARIABLES
    vcall, vret,    \* a direct call of a generator or trial function, its result
    agg,            \* the frame of a running aggregator
    sweep,          \* the arguments of the running sweep function
    seed,           \* the state of the process-wide random source at the call
    pc,             \* the position of the sweep function
    sweep_args,     \* its list of settings records, args
    pool,           \* the worker pool: its state, its tasks, those taken and running
    rs,             \* the MapResult of map_async
    result,         \* the list the driver returns
    errors,         \* the result array
    ri,             \* the number of results the reducer has scattered
    outcome,        \* what the sweep function raised or returned
    progress,       \* the last progress line printed
    trace           \* history kept for the claims

vecvars == <<vcall, vret>>

sweepvars ==
    <<sweep, seed, pc, sweep_args, pool, rs, result, errors, ri, outcome, progress, trace>>

vars == <<vcall, vret, agg, sweepvars>>

(***************************************************************************)
(* Bounds of the model.                                                    *)
(***************************************************************************)
MaxN == 2        \* largest dimensionality n of a generated tensor
MaxK == 3        \* largest sparsity k / kw / kv
MaxM == 2        \* largest batch size of a direct generator call
Quanta == 2      \* quanta per 1.0/kw of value range
MaxTrials == 2   \* largest n_trials of a settings record
MaxAxis == 4     \* largest number of values on a swept axis
MaxWorkers == 2  \* largest num_workers
MaxTasks == 9    \* largest number of settings handed to a pool

(***************************************************************************)
(* Constants of the program.                                               *)
(***************************************************************************)
m1 == 4                      \* weight vectors of one match trial
m2 == 1000                   \* input vectors of one match trial
m2_false_negatives == 10     \* noisy versions of one false-negative trial
n_trials_theta == 100000     \* get_theta's default n_trials

(***************************************************************************)
(* Arithmetic helpers.                                                     *)
(***************************************************************************)
Min(a, b) == IF a <= b THEN a ELSE b

Max(a, b) == IF a >= b THEN a ELSE b

Abs(a) == IF a < 0 THEN -a ELSE a

RECURSIVE GCD(_, _)
GCD(a, b) == IF b = 0 THEN a ELSE GCD(b, a % b)

\* the float a / b, b > 0
Frac(a, b) == LET g == GCD(Abs(a), b) IN <<a \div g, b \div g>>

\* x >= f for an integer x and a fraction f
GeFrac(x, f) == x * f[2] >= f[1]

\* 1.0 - f
OneMinus(f) == Frac(f[2] - f[1], f[2])

\* f / 2.0
Half(f) == Frac(f[1], 2 * f[2])

\* Python 3 round() of the float num / den, den > 0: to nearest, ties to even
PyRound(num, den) ==
    LET q == num \div den
        r == num % den
    IN  IF 2 * r < den THEN q
        ELSE IF 2 * r > den THEN q + 1
        ELSE IF q % 2 = 0 THEN q ELSE q + 1

\* s[0:stop] of Python
PySlice(s, stop) ==
    IF stop >= 0 THEN SubSeq(s, 1, Min(stop, Len(s)))
    ELSE SubSeq(s, 1, Max(Len(s) + stop, 0))

\* the list of the n elements f[1], ..., f[n], built element by element
PyList(f, n) == SubSeq(f, 1, n)

RECURSIVE SumSeq(_)
SumSeq(s) == IF s = <<>> THEN 0 ELSE s[1] + SumSeq(Tail(s))

\* np.random.permutation(n)
Permutations_(n) == {p \in [1..n -> 1..n] : \A i, j \in 1..n : p[i] = p[j] => i = j}

Return(v) == [exc |-> "none", val |-> v]

Raise(e) == [exc |-> e, val |-> <<>>]

(***************************************************************************)
(* Tensors.                                                                *)
(***************************************************************************)
\* number of rows of a tensor
Rows(t) == SumSeq([r \in 1..Len(t) |-> t[r].c])

\* positions of the non-zero entries of a row, ascending: row.nonzero()
RECURSIVE NonzeroFrom(_, _)
NonzeroFrom(row, j) ==
    IF j > Len(row) THEN <<>>
    ELSE IF row[j] # 0 THEN <<j>> \o NonzeroFrom(row, j + 1)
    ELSE NonzeroFrom(row, j + 1)

nonzero(row) == NonzeroFrom(row, 1)

\* a . b
RECURSIVE DotFrom(_, _, _)
DotFrom(a, b, j) == IF j > Len(a) THEN 0 ELSE a[j] * b[j] + DotFrom(a, b, j + 1)

Dot(a, b) == DotFrom(a, b, 1)

\* ((x.matmul(w.t()) >= theta).sum()).item(): pairs of rows whose dot
\* product reaches theta
CountMatches(x, w, theta) ==
    SumSeq([i \in 1..Len(x) |->
        SumSeq([j \in 1..Len(w) |->
            IF GeFrac(Dot(x[i].row, w[j].row), theta) THEN x[i].c * w[j].c ELSE 0])])

(***************************************************************************)
(* The values torch's uniform_ can put into an entry.  The endpoints and   *)
(* the unit stand for the interval.                                        *)
(***************************************************************************)
uniform_(only_positive, fixed_range) ==
    IF only_positive THEN {1, fixed_range}
    ELSE {-fixed_range, -1, 1, fixed_range}

\* the draws behind one row: the value of its entries before zeroing and the
\* permutation of its columns
RowDraws(input_size, only_positive, fixed_range) ==
    {[vals |-> [j \in 1..input_size |-> v], perm |-> p] :
        v \in uniform_(only_positive, fixed_range), p \in Permutations_(input_size)}

\* the draws behind a tensor of output_size rows: all rows alike, or the
\* first row and the others differing in value
TensorDraws(input_size, output_size, only_positive, fixed_range) ==
    LET D == RowDraws(input_size, only_positive, fixed_range)
    IN  {<<[vals |-> d.vals, perm |-> d.perm, c |-> output_size]>> : d \in D}
        \cup
        (IF output_size < 2 THEN {}
         ELSE UNION {{<<[vals |-> d.vals, perm |-> d.perm, c |-> 1],
                        [vals |-> e.vals, perm |-> d.perm, c |-> output_size - 1]>> :
                         e \in {x \in D : x.perm = d.perm /\ x.vals # d.vals}} :
                     d \in D})

\* get_sparse_tensor zeroing num_nonzeros entries of each row instead of
\* input_size - num_nonzeros
get_sparse_tensor_zeroes_k(num_nonzeros, input_size, output_size, rnd) ==
    IF num_nonzeros < input_size
    THEN Return([r \in 1..Len(rnd) |->
            [row |-> [j \in 1..input_size |->
                        IF \E x \in 1..Len(PySlice(rnd[r].perm, num_nonzeros)) :
                               PySlice(rnd[r].perm, num_nonzeros)[x] = j
                        THEN 0 ELSE rnd[r].vals[j]],
             c |-> rnd[r].c]])
    ELSE Return([r \in 1..Len(rnd) |-> [row |-> rnd[r].vals, c |-> rnd[r].c]])

\* get_sparse_tensor: output_size rows of input_size entries, all but
\* num_nonzeros of each row zeroed
get_sparse_tensor(num_nonzeros, input_size, output_size, rnd) ==
    IF num_nonzeros < input_size
    THEN LET num_zeros == input_size - num_nonzeros
             input_indices(r) == PySlice(rnd[r].perm, num_zeros)
             width == Len(input_indices(1))
         IN  \* zero_indices[:, :, 1] = input_indices broadcasts a
             \* (output_size, width) array into (output_size, num_zeros)
             IF width # num_zeros /\ width # 1
             THEN Raise("ValueError")
             ELSE Return([r \in 1..Len(rnd) |->
                     [row |-> [j \in 1..input_size |->
                                 IF \E x \in 1..Len(input_indices(r)) :
                                        input_indices(r)[x] = j
                                 THEN 0 ELSE rnd[r].vals[j]],
                      c |-> rnd[r].c]])
    ELSE Return([r \in 1..Len(rnd) |-> [row |-> rnd[r].vals, c |-> rnd[r].c]])

\* the draws of get_permuted_tensors: one permutation of 0..kw-1 per noisy
\* version; all versions alike, or the first one differing from the others
PermutedDraws(kw, rows) ==
    LET P == Permutations_(kw)
    IN  {<<[perm |-> p, c |-> rows]>> : p \in P}
        \cup
        (IF rows < 2 THEN {}
         ELSE {<<[perm |-> pq[1], c |-> 1], [perm |-> pq[2], c |-> rows - 1]>> :
                  pq \in {x \in P \X P : x[1] # x[2]}})

\* get_permuted_tensors zeroing column j itself (w2[i, j] = 0) instead of
\* the j-th non-zero column nz[j]
get_permuted_tensors_by_column(w, kw, n, rows, noise_pct, rnd) ==
    LET number_to_zero == PyRound(noise_pct[1] * kw, noise_pct[2])
        indices(i) == PySlice(rnd[i].perm, number_to_zero)
    IN  IF \E i \in 1..Len(rnd) : \E x \in 1..Len(indices(i)) : indices(i)[x] > n
        THEN Raise("IndexError")
        ELSE Return([i \in 1..Len(rnd) |->
                [row |-> [j \in 1..Len(w[1].row) |->
                            IF \E x \in 1..Len(indices(i)) : indices(i)[x] = j
                            THEN 0 ELSE w[1].row[j]],
                 c |-> rnd[i].c]])

\* get_permuted_tensors: rows noisy versions of the one-row tensor w, each
\* with round(noise_pct * kw) of the non-zero components of w set to zero
get_permuted_tensors(w, kw, n, rows, noise_pct, rnd) ==
    LET nz == nonzero(w[1].row)
        number_to_zero == PyRound(noise_pct[1] * kw, noise_pct[2])
        indices(i) == PySlice(rnd[i].perm, number_to_zero)
    IN  \* nz[j] with j beyond the non-zero positions found
        IF \E i \in 1..Len(rnd) : \E x \in 1..Len(indices(i)) :
               indices(i)[x] > Len(nz)
        THEN Raise("IndexError")
        ELSE Return([i \in 1..Len(rnd) |->
                [row |-> [j \in 1..Len(w[1].row) |->
                            IF \E x \in 1..Len(indices(i)) : nz[indices(i)[x]] = j
                            THEN 0 ELSE w[1].row[j]],
                 c |-> rnd[i].c]])

\* get_theta: half the mean self dot product of n_trials dense rows of
\* dimensionality k; returns (theta, the_dots)
get_theta(k, n_trials, rnd) ==
    IF k = 0 THEN Raise("ZeroDivisionError")      \* fixed_range=1.0 / k
    ELSE LET w1 == get_sparse_tensor(k, k, n_trials, rnd).val
             the_dots == [i \in 1..Len(w1) |->
                             [dot |-> Dot(w1[i].row, w1[i].row), c |-> w1[i].c]]
             dot_mean == Frac(SumSeq([i \in 1..Len(w1) |-> the_dots[i].dot * the_dots[i].c]),
                              n_trials)
         IN  Return(<<Half(dot_mean), the_dots>>)

ThetaDraws(k) == TensorDraws(k, n_trials_theta, FALSE, Quanta)

\* return_matches reporting the input batch size as the number of
\* comparisons
return_matches_total_m2(kw, kv, n, theta, input_scaling, rnd) ==
    IF kw = 0 THEN Raise("ZeroDivisionError")
    ELSE LET weights == get_sparse_tensor(kw, n, m1, rnd.w)
             input_vectors == get_sparse_tensor(kv, n, m2, rnd.x)
         IN  IF weights.exc # "none" THEN weights
             ELSE IF input_vectors.exc # "none" THEN input_vectors
             ELSE LET num_matches == CountMatches(input_vectors.val, weights.val, theta)
                  IN  Return(<<Frac(num_matches, m2), num_matches, m2>>)

\* return_matches: one match trial; returns
\* (pct_matches, num_matches, total comparisons)
return_matches(kw, kv, n, theta, input_scaling, rnd) ==
    IF kw = 0 THEN Raise("ZeroDivisionError")     \* fixed_range=1.0 / kw
    ELSE LET weights == get_sparse_tensor(kw, n, m1, rnd.w)
             input_vectors == get_sparse_tensor(kv, n, m2, rnd.x)
         IN  IF weights.exc # "none" THEN weights
             ELSE IF input_vectors.exc # "none" THEN input_vectors
             ELSE LET num_matches == CountMatches(input_vectors.val, weights.val, theta)
                      pct_matches == Frac(num_matches, m1 * m2)
                  IN  Return(<<pct_matches, num_matches, m1 * m2>>)

MatchDraws(n, input_scaling) ==
    [w : TensorDraws(n, m1, FALSE, Quanta),
     x : TensorDraws(n, m2, TRUE, 2 * input_scaling * Quanta)]

\* return_false_negatives: one false-negative trial; returns
\* (pct_matches, num_matches, total comparisons)
return_false_negatives(kw, noise_pct, n, theta, rnd) ==
    IF kw = 0 THEN Raise("ZeroDivisionError")     \* fixed_range=1.0 / kw
    ELSE LET w == get_sparse_tensor(kw, n, 1, rnd.w)
             input_vectors ==
                 get_permuted_tensors(w.val, kw, n, m2_false_negatives, noise_pct, rnd.p)
         IN  IF w.exc # "none" THEN w
             ELSE IF input_vectors.exc # "none" THEN input_vectors
             ELSE LET num_matches == CountMatches(input_vectors.val, w.val, theta)
                      pct_matches == Frac(num_matches, m2_false_negatives)
                  IN  Return(<<pct_matches, num_matches, m2_false_negatives>>)

FalseNegativeDraws(kw, n) ==
    [w : TensorDraws(n, 1, FALSE, Quanta),
     p : PermutedDraws(kw, m2_false_negatives)]

(***************************************************************************)
(* Inputs of the direct calls.                                             *)
(***************************************************************************)
\* corruption fractions noise_pct, as num/den
NoisePcts == {<<0, 1>>, <<1, 4>>, <<1, 2>>, <<1, 1>>, <<3, 2>>}

\* thresholds handed to a trial, in squared quanta
Thetas == {<<0, 1>>, <<1, 2>>, <<2, 1>>, <<9, 2>>}

\* input scalings
Scalings == {1, 2}

(***************************************************************************)
(* Direct calls of the generator, the noisy variant builder, the           *)
(* threshold estimator and the single-trial evaluators.  One call per      *)
(* behaviour: vcall is the call, vret what it returned or raised.          *)
(***************************************************************************)
NoCall == [fn |-> "none"]

NoAgg == [pc |-> "idle"]

\* Python's None
None == [None |-> TRUE]

\* the name errors before np.zeros binds it to an array: an array with no cell
NoArray == <<>>

\* no sweep function has been called
NoSweep ==
    /\ sweep = None
    /\ seed = 0
    /\ pc = "idle"
    /\ sweep_args = <<>>
    /\ pool = None
    /\ rs = None
    /\ result = <<>>
    /\ errors = NoArray
    /\ ri = 0
    /\ outcome = None
    /\ progress = None
    /\ trace = None

InitVec ==
    /\ vcall = NoCall
    /\ vret = Return(<<>>)
    /\ agg = NoAgg
    /\ NoSweep

Call_get_sparse_tensor ==
    /\ vcall = NoCall
    /\ \E k \in -1..MaxK, n \in 1..MaxN, m \in 1..MaxM, only_positive \in BOOLEAN :
         \E rnd \in TensorDraws(n, m, only_positive, Quanta) :
            /\ vcall' = [fn |-> "get_sparse_tensor", k |-> k, n |-> n, m |-> m]
            /\ vret' = get_sparse_tensor(k, n, m, rnd)
            /\ UNCHANGED <<agg, sweepvars>>

Call_get_permuted_tensors ==
    /\ vcall = NoCall
    /\ \E kw \in 0..MaxK, n \in 1..MaxN, m \in 1..MaxM, noise_pct \in NoisePcts :
         \E wr \in TensorDraws(n, 1, FALSE, Quanta), rnd \in PermutedDraws(kw, m) :
            LET w == get_sparse_tensor(kw, n, 1, wr).val
            IN  /\ vcall' = [fn |-> "get_permuted_tensors", w |-> w, kw |-> kw,
                             n |-> n, m |-> m, noise_pct |-> noise_pct]
                /\ vret' = get_permuted_tensors(w, kw, n, m, noise_pct, rnd)
                /\ UNCHANGED <<agg, sweepvars>>

Call_get_theta ==
    /\ vcall = NoCall
    /\ \E k \in 0..MaxK :
         \E rnd \in ThetaDraws(k) :
            /\ vcall' = [fn |-> "get_theta", k |-> k]
            /\ vret' = get_theta(k, n_trials_theta, rnd)
            /\ UNCHANGED <<agg, sweepvars>>

Call_return_matches ==
    /\ vcall = NoCall
    /\ \E kw \in 0..MaxK, kv \in -1..MaxK, n \in 1..MaxN, theta \in Thetas,
          input_scaling \in Scalings :
         \E rnd \in MatchDraws(n, input_scaling) :
            /\ vcall' = [fn |-> "return_matches", kw |-> kw, kv |-> kv, n |-> n,
                         theta |-> theta, input_scaling |-> input_scaling]
            /\ vret' = return_matches(kw, kv, n, theta, input_scaling, rnd)
            /\ UNCHANGED <<agg, sweepvars>>

Call_return_false_negatives ==
    /\ vcall = NoCall
    /\ \E kw \in 0..MaxK, n \in 1..MaxN, noise_pct \in NoisePcts, theta \in Thetas :
         \E rnd \in FalseNegativeDraws(kw, n) :
            /\ vcall' = [fn |-> "return_false_negatives", kw |-> kw, n |-> n,
                         noise_pct |-> noise_pct, theta |-> theta]
            /\ vret' = return_false_negatives(kw, noise_pct, n, theta, rnd)
            /\ UNCHANGED <<agg, sweepvars>>

NextVec ==
    \/ Call_get_sparse_tensor
    \/ Call_get_permuted_tensors
    \/ Call_get_theta
    \/ Call_return_matches
    \/ Call_return_false_negatives

SpecVec == InitVec /\ [][NextVec]_vars

(***************************************************************************)
(* The experiment aggregators.  A settings record is a Python dict: a      *)
(* function from its keys.  The frame of a running aggregator is the       *)
(* record agg; agg.trials is the history of the TrialResults it was        *)
(* handed, kept for the claims only.                                       *)
(***************************************************************************)
\* args.update({key: value})
update(args, key, value) == (key :> value) @@ args

\* num_matches += num; total_comparisons = total
accumulate_total_not_summed(acc, trial) ==
    [num_matches |-> acc.num_matches + trial[2],
     total_comparisons |-> trial[3]]

\* num_matches += num; total_comparisons += total
accumulate(acc, trial) ==
    [num_matches |-> acc.num_matches + trial[2],
     total_comparisons |-> acc.total_comparisons + trial[3]]

\* the kv compute_match_probability hands to the trial
input_k(args) == IF args["k"] = -1 THEN PyRound(args["n"], 2) ELSE args["k"]

\* one iteration's call of return_matches
match_trial(args, rnd) ==
    return_matches(args["kw"], input_k(args), args["n"], args["theta"],
                   args["input_scaling"], rnd)

\* the end of compute_match_probability with a zero total guarded
match_finish_guarded(args, acc) ==
    IF acc.total_comparisons = 0
    THEN Return(update(args, "pct_matches", <<0, 1>>))
    ELSE Return(update(args, "pct_matches",
                       Frac(acc.num_matches, acc.total_comparisons)))

\* the end of compute_match_probability:
\* pct_matches = float(num_matches) / total_comparisons; args.update(...)
match_finish(args, acc) ==
    IF acc.total_comparisons = 0
    THEN Raise("ZeroDivisionError")
    ELSE Return(update(args, "pct_matches",
                       Frac(acc.num_matches, acc.total_comparisons)))

\* one iteration's call of return_false_negatives
false_negatives_trial(args, theta, rnd) ==
    return_false_negatives(args["kw"], args["noise_pct"], args["n"], theta, rnd)

\* the end of compute_false_negatives:
\* pct_false_negatives = 1.0 - float(num_matches) / total_comparisons
false_negatives_finish(args, acc) ==
    IF acc.total_comparisons = 0
    THEN Raise("ZeroDivisionError")
    ELSE Return(update(args, "pctFalse",
                       OneMinus(Frac(acc.num_matches, acc.total_comparisons))))

\* the settings records handed to the aggregators directly
MatchSettings ==
    [k : {-2, -1, 1}, kw : 0..2, n : {1, 2}, theta : {<<1, 2>>},
     n_trials : 0..MaxTrials, input_scaling : {1}, error_index : {<<0, 0>>}]

FalseNegativeSettings ==
    [kw : 0..2, n : {1, 2}, noise_pct : {<<0, 1>>, <<1, 2>>},
     n_trials : 0..MaxTrials, error_index : {0}]

InitAgg ==
    /\ agg = NoAgg
    /\ vcall = NoCall
    /\ vret = Return(<<>>)
    /\ NoSweep

\* compute_match_probability is called: up to the loop
compute_match_probability_enter ==
    /\ agg.pc = "idle"
    /\ \E args \in MatchSettings :
          agg' = [pc |-> "loop", fn |-> "compute_match_probability", args |-> args,
                  theta |-> args["theta"], i |-> 0,
                  acc |-> [num_matches |-> 0, total_comparisons |-> 0],
                  trials |-> <<>>, ret |-> Return(<<>>)]
    /\ UNCHANGED <<vcall, vret, sweepvars>>

\* one iteration of its loop
compute_match_probability_iterate ==
    /\ agg.pc = "loop"
    /\ agg.fn = "compute_match_probability"
    /\ agg.i < agg.args["n_trials"]
    /\ \E rnd \in MatchDraws(agg.args["n"], agg.args["input_scaling"]) :
          LET trial == match_trial(agg.args, rnd)
          IN  agg' = IF trial.exc # "none"
                     THEN [agg EXCEPT !.pc = "raised", !.ret = trial]
                     ELSE [agg EXCEPT !.i = @ + 1,
                                      !.acc = accumulate(@, trial.val),
                                      !.trials = Append(@, trial.val)]
    /\ UNCHANGED <<vcall, vret, sweepvars>>

\* after the loop: the division, the update of the record, the return
compute_match_probability_exit ==
    /\ agg.pc = "loop"
    /\ agg.fn = "compute_match_probability"
    /\ agg.i >= agg.args["n_trials"]
    /\ LET r == match_finish(agg.args, agg.acc)
       IN  agg' = IF r.exc # "none"
                  THEN [agg EXCEPT !.pc = "raised", !.ret = r]
                  ELSE [agg EXCEPT !.pc = "returned", !.args = r.val, !.ret = r]
    /\ UNCHANGED <<vcall, vret, sweepvars>>

\* compute_false_negatives is called: get_theta(kw), up to the loop
compute_false_negatives_enter ==
    /\ agg.pc = "idle"
    /\ \E args \in FalseNegativeSettings :
         \E rnd \in ThetaDraws(args["kw"]) :
            LET t == get_theta(args["kw"], n_trials_theta, rnd)
                frame == [pc |-> "loop", fn |-> "compute_false_negatives",
                          args |-> args, theta |-> <<0, 1>>, i |-> 0,
                          acc |-> [num_matches |-> 0, total_comparisons |-> 0],
                          trials |-> <<>>, ret |-> Return(<<>>)]
            IN  agg' = IF t.exc # "none"
                       THEN [frame EXCEPT !.pc = "raised", !.ret = t]
                       ELSE [frame EXCEPT !.theta = t.val[1]]
    /\ UNCHANGED <<vcall, vret, sweepvars>>

compute_false_negatives_iterate ==
    /\ agg.pc = "loop"
    /\ agg.fn = "compute_false_negatives"
    /\ agg.i < agg.args["n_trials"]
    /\ \E rnd \in FalseNegativeDraws(agg.args["kw"], agg.args["n"]) :
          LET trial == false_negatives_trial(agg.args, agg.theta, rnd)
          IN  agg' = IF trial.exc # "none"
                     THEN [agg EXCEPT !.pc = "raised", !.ret = trial]
                     ELSE [agg EXCEPT !.i = @ + 1,
                                      !.acc = accumulate(@, trial.val),
                                      !.trials = Append(@, trial.val)]
    /\ UNCHANGED <<vcall, vret, sweepvars>>

compute_false_negatives_exit ==
    /\ agg.pc = "loop"
    /\ agg.fn = "compute_false_negatives"
    /\ agg.i >= agg.args["n_trials"]
    /\ LET r == false_negatives_finish(agg.args, agg.acc)
       IN  agg' = IF r.exc # "none"
                  THEN [agg EXCEPT !.pc = "raised", !.ret = r]
                  ELSE [agg EXCEPT !.pc = "returned", !.args = r.val, !.ret = r]
    /\ UNCHANGED <<vcall, vret, sweepvars>>

NextAgg ==
    \/ compute_match_probability_enter
    \/ compute_match_probability_iterate
    \/ compute_match_probability_exit
    \/ compute_false_negatives_enter
    \/ compute_false_negatives_iterate
    \/ compute_false_negatives_exit

SpecAgg == InitAgg /\ [][NextAgg]_vars

(***************************************************************************)
(* The aggregators as whole calls, for the sweeps: rnd holds the draws of  *)
(* every trial of the call.                                                *)
(***************************************************************************)
RECURSIVE match_loop(_, _, _, _)
match_loop(rec, rnd, i, acc) ==
    IF i > rec["n_trials"] THEN match_finish(rec, acc)
    ELSE LET trial == match_trial(rec, rnd[i])
         IN  IF trial.exc # "none" THEN trial
             ELSE match_loop(rec, rnd, i + 1, accumulate(acc, trial.val))

compute_match_probability(rec, rnd) ==
    match_loop(rec, rnd, 1, [num_matches |-> 0, total_comparisons |-> 0])

RECURSIVE false_negatives_loop(_, _, _, _, _)
false_negatives_loop(rec, theta, rnd, i, acc) ==
    IF i > rec["n_trials"] THEN false_negatives_finish(rec, acc)
    ELSE LET trial == false_negatives_trial(rec, theta, rnd[i])
         IN  IF trial.exc # "none" THEN trial
             ELSE false_negatives_loop(rec, theta, rnd, i + 1, accumulate(acc, trial.val))

compute_false_negatives(rec, rnd) ==
    LET t == get_theta(rec["kw"], n_trials_theta, rnd.theta)
    IN  IF t.exc # "none" THEN t
        ELSE false_negatives_loop(rec, t.val[1], rnd.trials, 1,
                                  [num_matches |-> 0, total_comparisons |-> 0])

(***************************************************************************)
(* The random source of a sweep.  The draws of a sweep are a function of   *)
(* the state sd of the random source at the call, of the setting i and of  *)
(* the trial t.                                                            *)
(***************************************************************************)
Rand(sd, i, t) == sd * 11 + i * 3 + t * 5 + 1

\* the x-th smallest element of a set of integers, cyclically
Nth(S, x) == CHOOSE v \in S : Cardinality({u \in S : u < v}) = x % Cardinality(S)

Rotation(n, x) == [j \in 1..n |-> ((j - 1 + x) % n) + 1]

SeededTensor(x, input_size, output_size, only_positive, fixed_range) ==
    LET U == uniform_(only_positive, fixed_range)
        first == [vals |-> [j \in 1..input_size |-> Nth(U, x)],
                  perm |-> Rotation(input_size, x)]
        others == [vals |-> [j \in 1..input_size |-> Nth(U, x + 1)],
                   perm |-> Rotation(input_size, x)]
    IN  IF x % 2 = 0 \/ output_size < 2
        THEN <<[vals |-> first.vals, perm |-> first.perm, c |-> output_size]>>
        ELSE <<[vals |-> first.vals, perm |-> first.perm, c |-> 1],
               [vals |-> others.vals, perm |-> others.perm, c |-> output_size - 1]>>

SeededPermuted(x, kw, rows) ==
    IF x % 2 = 0 \/ rows < 2
    THEN <<[perm |-> Rotation(kw, x), c |-> rows]>>
    ELSE <<[perm |-> Rotation(kw, x), c |-> 1],
           [perm |-> Rotation(kw, x + 1), c |-> rows - 1]>>

\* the draws of get_theta(kw) called for setting i (0 for the sweep itself)
SeededTheta(sd, i, kw) ==
    SeededTensor(Rand(sd, i, 0), kw, n_trials_theta, FALSE, Quanta)

\* the draws of compute_match_probability(rec), rec the i-th setting
SeededMatch(sd, i, rec) ==
    [t \in 1..rec["n_trials"] |->
        [w |-> SeededTensor(Rand(sd, i, t), rec["n"], m1, FALSE, Quanta),
         x |-> SeededTensor(Rand(sd, i, t) \div 2, rec["n"], m2, TRUE,
                            2 * rec["input_scaling"] * Quanta)]]

\* the draws of compute_false_negatives(rec), rec the i-th setting
SeededFalseNegatives(sd, i, rec) ==
    [theta |-> SeededTheta(sd, i, rec["kw"]),
     trials |-> [t \in 1..rec["n_trials"] |->
        [w |-> SeededTensor(Rand(sd, i, t), rec["n"], 1, FALSE, Quanta),
         p |-> SeededPermuted(Rand(sd, i, t), rec["kw"], m2_false_negatives)]]]

(***************************************************************************)
(* The settings lists of the sweep functions.  enumerate counts from 0:    *)
(* the setting of (ki, ni) is element ki * len + ni + 1 of the list.       *)
(***************************************************************************)
\* compute_match_probabilities estimating theta for every setting
match_args_theta_per_setting(call, sd) ==
    IF call.kw = 0 THEN Raise("ZeroDivisionError")
    ELSE LET lenN == Len(call.listof_n_values)
         IN  Return(PyList([x \in 1..(Len(call.listofk_values) * lenN) |->
                LET ki == (x - 1) \div lenN
                    ni == (x - 1) % lenN
                IN  [k |-> call.listofk_values[ki + 1],
                     kw |-> call.kw,
                     n |-> call.listof_n_values[ni + 1],
                     theta |-> get_theta(call.kw, n_trials_theta,
                                         SeededTheta(sd, x, call.kw)).val[1],
                     n_trials |-> call.n_trials,
                     input_scaling |-> call.input_scale,
                     error_index |-> <<ki, ni>>]],
                    Len(call.listofk_values) * lenN))

\* compute_match_probabilities: theta, _ = get_theta(kw) and the loops that
\* fill args
match_args(call, sd) ==
    LET t == get_theta(call.kw, n_trials_theta, SeededTheta(sd, 0, call.kw))
        lenN == Len(call.listof_n_values)
    IN  IF t.exc # "none" THEN t
        ELSE Return(PyList([x \in 1..(Len(call.listofk_values) * lenN) |->
                LET ki == (x - 1) \div lenN
                    ni == (x - 1) % lenN
                IN  [k |-> call.listofk_values[ki + 1],
                     kw |-> call.kw,
                     n |-> call.listof_n_values[ni + 1],
                     theta |-> t.val[1],
                     n_trials |-> call.n_trials,
                     input_scaling |-> call.input_scale,
                     error_index |-> <<ki, ni>>]],
                    Len(call.listofk_values) * lenN))

\* compute_scaled_probabilities: theta, _ = get_theta(kw) and the loops that
\* fill args
scaled_args(call, sd) ==
    LET t == get_theta(call.kw, n_trials_theta, SeededTheta(sd, 0, call.kw))
        lenS == Len(call.list_of_scales)
    IN  IF t.exc # "none" THEN t
        ELSE Return(PyList([x \in 1..(Len(call.list_of_k_values) * lenS) |->
                LET ki == (x - 1) \div lenS
                    si == (x - 1) % lenS
                IN  [k |-> call.list_of_k_values[ki + 1],
                     kw |-> call.kw,
                     n |-> call.n,
                     theta |-> t.val[1],
                     n_trials |-> call.n_trials,
                     input_scaling |-> call.list_of_scales[si + 1],
                     error_index |-> <<ki, si>>]],
                    Len(call.list_of_k_values) * lenS))

\* compute_false_negatives_parallel: the loop that fills args
false_negatives_args(call) ==
    PyList([x \in 1..Len(call.listof_noise) |->
            [kw |-> call.kw,
             n |-> call.n,
             noise_pct |-> call.listof_noise[x],
             n_trials |-> call.n_trials,
             error_index |-> x - 1]],
         Len(call.listof_noise))

IsFalseNegatives(call) == call.fn = "compute_false_negatives_parallel"

\* the function a sweep maps over its settings, applied to the i-th one
worker_function(call, sd, i, rec) ==
    IF IsFalseNegatives(call)
    THEN compute_false_negatives(rec, SeededFalseNegatives(sd, i, rec))
    ELSE compute_match_probability(rec, SeededMatch(sd, i, rec))

\* np.zeros(shape): the cells of the result array of a sweep
zeros(call) ==
    IF IsFalseNegatives(call)
    THEN [c \in {<<x>> : x \in 0..(Len(call.listof_noise) - 1)} |-> <<0, 1>>]
    ELSE IF call.fn = "compute_match_probabilities"
    THEN [c \in (0..(Len(call.listofk_values) - 1)) \X
                 (0..(Len(call.listof_n_values) - 1)) |-> <<0, 1>>]
    ELSE [c \in (0..(Len(call.list_of_k_values) - 1)) \X
                 (0..(Len(call.list_of_scales) - 1)) |-> <<0, 1>>]

\* the key of the settings record the reducer of a sweep reads
result_key(call) == IF IsFalseNegatives(call) THEN "pct_false" ELSE "pct_matches"

\* the cell of the result array the error_index of a record names:
\* errors[ni] in the false-negative sweep, errors[ki, ni] in the others
cell(call, r) ==
    IF IsFalseNegatives(call) THEN <<r["error_index"]>> ELSE r["error_index"]

\* the reducer writing every result into the first column of its row
scatter_into_first_column(call, arr, r) ==
    IF "error_index" \notin DOMAIN r THEN Raise("TypeError")
    ELSE IF result_key(call) \notin DOMAIN r THEN Raise("KeyError")
    ELSE IF cell(call, r) \notin DOMAIN arr THEN Raise("IndexError")
    ELSE Return([arr EXCEPT ![<<r["error_index"][1], 0>>] = r[result_key(call)]])

\* one iteration of the reducer:
\* errors[r["error_index"][0], r["error_index"][1]] = r["pct_matches"]
scatter(call, arr, r) ==
    IF "error_index" \notin DOMAIN r THEN Raise("TypeError")
    ELSE IF result_key(call) \notin DOMAIN r THEN Raise("KeyError")
    ELSE IF cell(call, r) \notin DOMAIN arr THEN Raise("IndexError")
    ELSE Return([arr EXCEPT ![cell(call, r)] = r[result_key(call)]])

\* plot_matches: the cells and axis values it indexes
plot_matches(listof_n_values, arr) ==
    IF /\ \A row \in 0..3 : <<row, 0>> \in DOMAIN arr      \* errors[0..3, :]
       /\ 3 < Len(listof_n_values)                         \* listof_n_values[3]
       /\ \A row \in 0..3 : <<row, 3>> \in DOMAIN arr      \* errors[0..3, 3]
    THEN Return(None)
    ELSE Raise("IndexError")

\* plot_scaled_matches: the cells and axis values it indexes
plot_scaled_matches(list_of_scales, arr) ==
    IF /\ \A row \in 0..2 : <<row, 0>> \in DOMAIN arr      \* errors[0..2, :]
       /\ 1 < Len(list_of_scales)                          \* list_of_scales[1]
       /\ \A col \in 1..2 : \A row \in 0..2 : <<row, col>> \in DOMAIN arr
    THEN Return(None)
    ELSE Raise("IndexError")

\* plot_false_matches indexes nothing
plot_false_matches(list_of_noise, arr) == Return(None)

\* the plot call that ends a sweep function
plot(call, arr) ==
    IF IsFalseNegatives(call) THEN plot_false_matches(call.listof_noise, arr)
    ELSE IF call.fn = "compute_match_probabilities"
    THEN plot_matches(call.listof_n_values, arr)
    ELSE plot_scaled_matches(call.list_of_scales, arr)

(***************************************************************************)
(* multiprocessing's MapResult: number_left tasks outstanding, the slots   *)
(* of the results in submission order, and the first exception.            *)
(***************************************************************************)
map_async(n) ==
    [number_left |-> n, success |-> TRUE, value |-> [i \in 1..n |-> None],
     exception |-> "none"]

\* MapResult._set(i, (success, result))
rs_set(r, i, res) ==
    IF res.exc = "none" /\ r.success
    THEN [r EXCEPT !.number_left = @ - 1, !.value[i] = res.val]
    ELSE IF res.exc # "none" /\ r.success
    THEN [r EXCEPT !.number_left = @ - 1, !.success = FALSE, !.exception = res.exc]
    ELSE [r EXCEPT !.number_left = @ - 1]

\* rs.ready()
ready(r) == r.number_left = 0

\* rs.get() handing out whatever results there are
rs_get_ignoring_failure(r) == Return(r.value)

\* rs.get()
rs_get(r) == IF r.success THEN Return(r.value) ELSE Raise(r.exception)

(***************************************************************************)
(* The sweep functions.  A behaviour is one call of                        *)
(* compute_match_probabilities, compute_scaled_probabilities or            *)
(* compute_false_negatives_parallel.  The parallel driver                  *)
(* compute_match_probability_parallel and the copy of it inside            *)
(* compute_false_negatives_parallel are the same actions.                  *)
(***************************************************************************)
\* values of the k axis: sparsities 1, 2, ... with -1 (n/2) last; the same
\* with a second value of -2, which no trial accepts
KLists(len) ==
    {[i \in 1..len |-> IF i = len THEN -1 ELSE i],
     [i \in 1..len |-> IF i = 2 THEN -2 ELSE IF i = len THEN -1 ELSE i]}

NList(len) == [i \in 1..len |-> i + 1]

ScaleList(len) == [i \in 1..len |-> i]

NoiseList(len) == [i \in 1..len |-> <<i - 1, 2>>]

Seeds == {0, 1}

MatchCalls ==
    {[fn |-> "compute_match_probabilities", listofk_values |-> ks,
      listof_n_values |-> NList(lenN), input_scale |-> 1, kw |-> p[1],
      num_workers |-> w, n_trials |-> p[2]] :
        ks \in UNION {KLists(len) : len \in 1..MaxAxis}, lenN \in 1..MaxAxis,
        p \in {<<1, MaxTrials>>, <<1, 0>>, <<0, MaxTrials>>}, w \in 1..MaxWorkers}

ScaledCalls ==
    {[fn |-> "compute_scaled_probabilities", list_of_scales |-> ScaleList(lenS),
      list_of_k_values |-> ks, kw |-> p[1], n |-> 2,
      num_workers |-> w, n_trials |-> p[2]] :
        ks \in UNION {KLists(len) : len \in 1..MaxAxis}, lenS \in 1..MaxAxis,
        p \in {<<1, MaxTrials>>, <<1, 0>>, <<0, MaxTrials>>}, w \in 1..MaxWorkers}

FalseNegativesCalls ==
    {[fn |-> "compute_false_negatives_parallel", listof_noise |-> NoiseList(len),
      kw |-> p[1], num_workers |-> w, n_trials |-> p[3], n |-> p[2]] :
        len \in 1..MaxAxis,
        p \in {<<1, 2, MaxTrials>>, <<2, 1, MaxTrials>>, <<0, 1, MaxTrials>>, <<1, 2, 0>>},
        w \in 1..MaxWorkers}

\* calls whose settings all have kw >= 1, at least one trial and a k a trial
\* accepts
PlainCall(call) ==
    /\ call.kw >= 1
    /\ call.n_trials >= 1
    /\ IF IsFalseNegatives(call) THEN TRUE
       ELSE LET ks == IF call.fn = "compute_match_probabilities"
                      THEN call.listofk_values ELSE call.list_of_k_values
            IN  \A i \in 1..Len(ks) : ks[i] >= -1

\* the number of settings of a sweep
NumSettings(call) ==
    IF IsFalseNegatives(call) THEN Len(call.listof_noise)
    ELSE IF call.fn = "compute_match_probabilities"
    THEN Len(call.listofk_values) * Len(call.listof_n_values)
    ELSE Len(call.list_of_k_values) * Len(call.list_of_scales)

Init ==
    /\ vcall = NoCall
    /\ vret = Return(<<>>)
    /\ agg = NoAgg
    /\ sweep \in MatchCalls \cup ScaledCalls \cup FalseNegativesCalls
    /\ seed \in Seeds
    /\ IF seed = 0 THEN TRUE ELSE PlainCall(sweep)
    /\ sweep.num_workers > 1 => NumSettings(sweep) <= MaxTasks  \* larger sweeps run serially
    /\ pc = "called"
    /\ sweep_args = <<>>
    /\ pool = None
    /\ rs = None
    /\ result = <<>>
    /\ errors = NoArray
    /\ ri = 0
    /\ outcome = None
    /\ progress = None
    /\ trace = [get_theta_calls |-> 0, evaluations |-> <<>>, theta_used |-> <<>>,
                computed |-> <<>>, raised |-> {}, written |-> {}, built |-> <<>>]

\* the history of a sweep whose settings list has just been built
Built(tr, list) ==
    [tr EXCEPT !.built = list,
               !.evaluations = [i \in 1..Len(list) |-> 0],
               !.theta_used = [i \in 1..Len(list) |-> None],
               !.computed = [i \in 1..Len(list) |-> None]]

\* the theta the evaluation of setting i uses: the one its record carries,
\* or in compute_false_negatives the one get_theta(kw) gives it (none when
\* get_theta raises)
theta_used(call, sd, i, rec) ==
    IF IsFalseNegatives(call)
    THEN LET t == get_theta(rec["kw"], n_trials_theta, SeededTheta(sd, i, rec["kw"]))
         IN  IF t.exc # "none" THEN <<>> ELSE <<t.val[1]>>
    ELSE <<rec["theta"]>>

\* one evaluation of the i-th setting: the result or exception it yields and
\* the theta it used
evaluate(call, sd, i, rec) ==
    [res |-> worker_function(call, sd, i, rec), theta |-> theta_used(call, sd, i, rec)]

\* the history after the evaluation ev of setting i
Evaluated(tr, call, i, ev) ==
    [tr EXCEPT !.evaluations[i] = @ + 1,
               !.get_theta_calls = IF IsFalseNegatives(call) THEN @ + 1 ELSE @,
               !.theta_used[i] = ev.theta,
               !.computed[i] = ev.res,
               !.raised = IF ev.res.exc # "none" THEN @ \cup {i} ELSE @]

\* compute_match_probabilities / compute_scaled_probabilities up to the
\* call of the driver: get_theta(kw) and the settings list
sweep_build_args ==
    /\ pc = "called"
    /\ ~IsFalseNegatives(sweep)
    /\ LET r == IF sweep.fn = "compute_match_probabilities"
                THEN match_args(sweep, seed) ELSE scaled_args(sweep, seed)
       IN  IF r.exc # "none"
           THEN /\ pc' = "raised"
                /\ outcome' = r
                /\ sweep_args' = sweep_args
                /\ trace' = [trace EXCEPT !.get_theta_calls = @ + 1]
           ELSE /\ pc' = "map"
                /\ outcome' = outcome
                /\ sweep_args' = r.val
                /\ trace' = [Built(trace, r.val) EXCEPT !.get_theta_calls = @ + 1]
    /\ UNCHANGED <<vcall, vret, agg, sweep, seed, pool, rs, result, errors, ri, progress>>

\* compute_false_negatives_parallel up to its driver: the settings list
false_negatives_build_args ==
    /\ pc = "called"
    /\ IsFalseNegatives(sweep)
    /\ pc' = "map"
    /\ sweep_args' = false_negatives_args(sweep)
    /\ trace' = Built(trace, false_negatives_args(sweep))
    /\ UNCHANGED <<vcall, vret, agg, sweep, seed, pool, rs, result, errors, ri, outcome,
                   progress>>

\* num_workers > 1: Pool(processes=num_workers) and map_async(..., chunksize=1).
\* Every setting becomes a task on a pickled copy of its record; what the
\* evaluation of a task yields is fixed by the random source and the setting
\* and is kept with the task.  The pool's processes take the first tasks.
driver_map_async ==
    /\ pc = "map"
    /\ sweep.num_workers > 1
    /\ pool' = [state |-> "open", processes |-> sweep.num_workers,
                tasks |-> PyList([i \in 1..Len(sweep_args) |->
                                    evaluate(sweep, seed, i, sweep_args[i])],
                                 Len(sweep_args)),
                taken |-> Min(sweep.num_workers, Len(sweep_args)),
                running |-> 1..Min(sweep.num_workers, Len(sweep_args))]
    /\ rs' = map_async(Len(sweep_args))
    /\ pc' = "wait"
    /\ UNCHANGED <<vcall, vret, agg, sweep, seed, sweep_args, result, errors, ri, outcome,
                   progress, trace>>

\* a task that works on the caller's record instead of a pickled copy of it
worker_finish_in_place ==
    /\ pool # None
    /\ \E i \in pool.running :
         LET more == pool.taken < Len(sweep_args)
             res == pool.tasks[i].res
         IN  /\ rs' = rs_set(rs, i, res)
             /\ pool' = [pool EXCEPT
                            !.taken = IF more THEN @ + 1 ELSE @,
                            !.running = (@ \ {i}) \cup
                                        (IF more THEN {pool.taken + 1} ELSE {})]
             /\ sweep_args' = IF res.exc # "none" THEN sweep_args
                              ELSE [sweep_args EXCEPT ![i] = res.val]
             /\ trace' = Evaluated(trace, sweep, i, pool.tasks[i])
    /\ UNCHANGED <<vcall, vret, agg, sweep, seed, pc, result, errors, ri,
                   outcome, progress>>

\* a process of the pool finishes its task, hands the result or the
\* exception to the MapResult and takes the next task
worker_finish ==
    /\ pool # None
    /\ \E i \in pool.running :
         LET more == pool.taken < Len(sweep_args)
         IN  /\ rs' = rs_set(rs, i, pool.tasks[i].res)
             /\ pool' = [pool EXCEPT
                            !.taken = IF more THEN @ + 1 ELSE @,
                            !.running = (@ \ {i}) \cup
                                        (IF more THEN {pool.taken + 1} ELSE {})]
             /\ trace' = Evaluated(trace, sweep, i, pool.tasks[i])
    /\ UNCHANGED <<vcall, vret, agg, sweep, seed, pc, sweep_args, result, errors, ri,
                   outcome, progress>>

\* the wait loop reporting the tasks done as the tasks remaining
driver_poll_reporting_done ==
    /\ pc = "wait"
    /\ ~ready(rs)
    /\ LET num_experiments == Len(sweep_args)
           remaining == num_experiments - rs.number_left
       IN  progress' = [remaining |-> remaining,
                        pct_done |-> Frac(100 * num_experiments - 100 * remaining,
                                          num_experiments)]
    /\ UNCHANGED <<vcall, vret, agg, sweep, seed, pc, sweep_args, pool, rs, result, errors,
                   ri, outcome, trace>>

\* one turn of the wait loop: while not rs.ready(), print the progress, sleep
driver_poll ==
    /\ pc = "wait"
    /\ ~ready(rs)
    /\ LET num_experiments == Len(sweep_args)
           remaining == rs.number_left
       IN  progress' = [remaining |-> remaining,
                        pct_done |-> Frac(100 * num_experiments - 100 * remaining,
                                          num_experiments)]
    /\ UNCHANGED <<vcall, vret, agg, sweep, seed, pc, sweep_args, pool, rs, result, errors,
                   ri, outcome, trace>>

\* the driver going on to rs.get() without waiting for the tasks: no wait
\* loop and no pool.join()
driver_close_without_waiting ==
    /\ pc = "wait"
    /\ pool' = [pool EXCEPT !.state = "closed"]
    /\ pc' = "get"
    /\ UNCHANGED <<vcall, vret, agg, sweep, seed, sweep_args, rs, result, errors, ri,
                   outcome, progress, trace>>

\* rs.ready(): the loop ends; pool.close()
driver_close ==
    /\ pc = "wait"
    /\ ready(rs)
    /\ pool' = [pool EXCEPT !.state = "closed"]
    /\ pc' = "join"
    /\ UNCHANGED <<vcall, vret, agg, sweep, seed, sweep_args, rs, result, errors, ri,
                   outcome, progress, trace>>

\* pool.join() returns once the processes have exited
driver_join ==
    /\ pc = "join"
    /\ pool.running = {}
    /\ pool' = [pool EXCEPT !.state = "joined"]
    /\ pc' = "get"
    /\ UNCHANGED <<vcall, vret, agg, sweep, seed, sweep_args, rs, result, errors, ri,
                   outcome, progress, trace>>

\* result = rs.get(); return result
driver_get ==
    /\ pc = "get"
    /\ LET r == rs_get(rs)
       IN  IF r.exc # "none"
           THEN pc' = "raised" /\ outcome' = r /\ result' = result
           ELSE pc' = "reduce" /\ outcome' = outcome /\ result' = r.val
    /\ UNCHANGED <<vcall, vret, agg, sweep, seed, sweep_args, pool, rs, errors, ri,
                   progress, trace>>

\* num_workers <= 1: result = []
driver_serial ==
    /\ pc = "map"
    /\ sweep.num_workers <= 1
    /\ result' = <<>>
    /\ pc' = "serial"
    /\ UNCHANGED <<vcall, vret, agg, sweep, seed, sweep_args, pool, rs, errors, ri, outcome,
                   progress, trace>>

\* for arg in args: result.append(f(arg)); f updates arg in place
driver_serial_iterate ==
    /\ pc = "serial"
    /\ Len(result) < Len(sweep_args)
    /\ LET i == Len(result) + 1
           ev == evaluate(sweep, seed, i, sweep_args[i])
           res == ev.res
       IN  /\ IF res.exc # "none"
              THEN pc' = "raised" /\ outcome' = res /\ UNCHANGED <<result, sweep_args>>
              ELSE /\ pc' = pc
                   /\ outcome' = outcome
                   /\ sweep_args' = [sweep_args EXCEPT ![i] = res.val]
                   /\ result' = Append(result, res.val)
           /\ trace' = Evaluated(trace, sweep, i, ev)
    /\ UNCHANGED <<vcall, vret, agg, sweep, seed, pool, rs, errors, ri, progress>>

\* the loop is over: return result
driver_serial_return ==
    /\ pc = "serial"
    /\ Len(result) = Len(sweep_args)
    /\ pc' = "reduce"
    /\ UNCHANGED <<vcall, vret, agg, sweep, seed, sweep_args, pool, rs, result, errors, ri,
                   outcome, progress, trace>>

\* errors = np.zeros(...)
reduce_zeros ==
    /\ pc = "reduce"
    /\ errors' = zeros(sweep)
    /\ ri' = 0
    /\ pc' = "scatter"
    /\ UNCHANGED <<vcall, vret, agg, sweep, seed, sweep_args, pool, rs, result, outcome,
                   progress, trace>>

\* for r in result: errors[r["error_index"]] = r[key]
reduce_scatter ==
    /\ pc = "scatter"
    /\ ri < Len(result)
    /\ LET w == scatter(sweep, errors, result[ri + 1])
       IN  IF w.exc # "none"
           THEN pc' = "raised" /\ outcome' = w /\ UNCHANGED <<errors, ri, trace>>
           ELSE /\ errors' = w.val
                /\ ri' = ri + 1
                /\ trace' = [trace EXCEPT !.written = @ \cup {cell(sweep, result[ri + 1])}]
                /\ UNCHANGED <<pc, outcome>>
    /\ UNCHANGED <<vcall, vret, agg, sweep, seed, sweep_args, pool, rs, result, progress>>

\* the loop is over: on to the plot call
reduce_done ==
    /\ pc = "scatter"
    /\ ri = Len(result)
    /\ pc' = "plot"
    /\ UNCHANGED <<vcall, vret, agg, sweep, seed, sweep_args, pool, rs, result, errors, ri,
                   outcome, progress, trace>>

\* plot_matches / plot_scaled_matches / plot_false_matches, then
\* return errors (compute_false_negatives_parallel returns nothing)
plot_and_return ==
    /\ pc = "plot"
    /\ LET r == plot(sweep, errors)
       IN  IF r.exc # "none"
           THEN pc' = "raised" /\ outcome' = r
           ELSE /\ pc' = "returned"
                /\ outcome' = IF IsFalseNegatives(sweep) THEN Return(None)
                              ELSE Return(errors)
    /\ UNCHANGED <<vcall, vret, agg, sweep, seed, sweep_args, pool, rs, result, errors, ri,
                   progress, trace>>

Next ==
    \/ sweep_build_args
    \/ false_negatives_build_args
    \/ driver_map_async
    \/ worker_finish
    \/ driver_poll
    \/ driver_close
    \/ driver_join
    \/ driver_get
    \/ driver_serial
    \/ driver_serial_iterate
    \/ driver_serial_return
    \/ reduce_zeros
    \/ reduce_scatter
    \/ reduce_done
    \/ plot_and_return

Spec == Init /\ [][Next]_vars

\* the sweep functions with every pool process finishing the task it runs
\* and the driver, a sequential program, taking its next step
FairSpec ==
    /\ Spec
    /\ WF_pool(worker_finish)
    /\ WF_pc(driver_close)
    /\ WF_pc(driver_join)
    /\ WF_pc(driver_get)

(***************************************************************************)
(* Claims about the generator, the noisy variant builder and the trials,   *)
(* checked under SpecVec.                                                  *)
(***************************************************************************)
\* the rows of the returned tensor
RetRows == {vret.val[r].row : r \in 1..Len(vret.val)}

\* C6: every call get_sparse_tensor(k, n, m) with k >= 0, n > 0, m >= 1
\* returns m rows of n entries, each keeping exactly min(k, n) entries
\* un-zeroed; with k = 0 every row is all zero and nothing is raised.
C6_RowsKeepMinKN ==
    (vcall.fn = "get_sparse_tensor" /\ vcall.k >= 0) =>
        /\ vret.exc = "none"
        /\ Rows(vret.val) = vcall.m
        /\ \A row \in RetRows :
              /\ Len(row) = vcall.n
              /\ Len(nonzero(row)) = Min(vcall.k, vcall.n)

\* a call with k = 0 has returned two all-zero rows
C6_Witness ==
    /\ vcall.fn = "get_sparse_tensor"
    /\ vcall.k = 0
    /\ vcall.m = 2
    /\ vret.exc = "none"
    /\ \A row \in RetRows : nonzero(row) = <<>>

\* what C7 says of a returned batch of noisy versions of the source row
NoisyVersionsAsClaimed ==
    LET src == vcall.w[1].row
        kw == vcall.kw
        zeroed == Min(PyRound(vcall.noise_pct[1] * kw, vcall.noise_pct[2]), kw)
    IN  /\ vret.exc = "none"
        /\ Rows(vret.val) = vcall.m
        /\ \A row \in RetRows :
              /\ Len(row) = Len(src)
              /\ \A j \in 1..Len(src) : row[j] = src[j] \/ (row[j] = 0 /\ src[j] # 0)
              /\ Len(nonzero(row)) = Len(nonzero(src)) - zeroed

PooledMatched == SumSeq([t \in 1..Len(agg.trials) |-> agg.trials[t][2]])

PooledTotal == SumSeq([t \in 1..Len(agg.trials) |-> agg.trials[t][3]])

\* C4: for a settings record with n_trials >= 1 the probability the
\* aggregator attaches is the pooled ratio (sum of count_matched over all
\* n_trials repetitions) / (sum of total_comparisons) for
\* compute_match_probability and 1 minus it for compute_false_negatives.
C4_PooledRatio ==
    (agg.pc = "returned" /\ agg.args["n_trials"] >= 1) =>
        /\ Len(agg.trials) = agg.args["n_trials"]
        /\ agg.fn = "compute_match_probability" =>
              agg.args["pct_matches"] = Frac(PooledMatched, PooledTotal)
        /\ agg.fn = "compute_false_negatives" =>
              agg.args["pctFalse"] = OneMinus(Frac(PooledMatched, PooledTotal))

\* compute_match_probability has returned after two trials with different
\* counts
C4_Witness ==
    /\ agg.pc = "returned"
    /\ agg.fn = "compute_match_probability"
    /\ Len(agg.trials) = 2
    /\ agg.trials[1][2] # agg.trials[2][2]
    /\ "pct_matches" \in DOMAIN agg.args

\* C5: an aggregation that ends with a pooled total_comparisons of zero
\* ends in an error, and its settings record carries no result field.
C5_ZeroTotalRaises ==
    (agg.pc \in {"returned", "raised"} /\ PooledTotal = 0) =>
        /\ agg.pc = "raised"
        /\ agg.ret.exc # "none"
        /\ DOMAIN agg.args \cap {"pct_matches", "pctFalse", "pct_false"} = {}

\* compute_match_probability with n_trials = 0 and kw >= 1 has raised
\* ZeroDivisionError at the division
C5_Witness ==
    /\ agg.pc = "raised"
    /\ agg.fn = "compute_match_probability"
    /\ agg.args["n_trials"] = 0
    /\ agg.args["kw"] >= 1
    /\ agg.ret.exc = "ZeroDivisionError"

(***************************************************************************)
(* Claims about the sweep functions, checked under Spec.                   *)
(***************************************************************************)
\* the two swept axes of a match-probability sweep
KAxis(call) ==
    IF call.fn = "compute_match_probabilities"
    THEN call.listofk_values ELSE call.list_of_k_values

SecondAxis(call) ==
    IF call.fn = "compute_match_probabilities"
    THEN call.listof_n_values ELSE call.list_of_scales

\* the value of the second axis a settings record was built from
SecondValue(call, rec) ==
    IF call.fn = "compute_match_probabilities" THEN rec["n"] ELSE rec["input_scaling"]

\* one cell per combination of the swept axis values
Cells(call) == (0..(Len(KAxis(call)) - 1)) \X (0..(Len(SecondAxis(call)) - 1))

\* the reducer has scattered every collected result
Reduced == errors # NoArray /\ ri = Len(result)

\* the settings that have been evaluated so far
EvaluatedSettings == {i \in 1..Len(trace.evaluations) : trace.evaluations[i] > 0}

\* C1: in compute_match_probabilities and compute_scaled_probabilities, with
\* num_workers <= 1 or > 1 and for every order in which the tasks complete,
\* once the results are reduced the result array has one cell per
\* combination of the swept axis values, every cell [i, j] holds the
\* pct_matches computed for the one setting whose error_index is [i, j]
\* (the setting of the i-th k and the j-th value of the other axis), and no
\* cell is left unwritten.
C1_CellsHoldOwnSetting ==
    (~IsFalseNegatives(sweep) /\ Reduced) =>
        /\ DOMAIN errors = Cells(sweep)
        /\ trace.written = Cells(sweep)
        /\ \A c \in Cells(sweep) :
              \E x \in 1..Len(sweep_args) :
                 /\ sweep_args[x]["error_index"] = c
                 /\ \A y \in 1..Len(sweep_args) :
                       sweep_args[y]["error_index"] = c => y = x
                 /\ sweep_args[x]["k"] = KAxis(sweep)[c[1] + 1]
                 /\ SecondValue(sweep, sweep_args[x]) = SecondAxis(sweep)[c[2] + 1]
                 /\ trace.computed[x].exc = "none"
                 /\ errors[c] = trace.computed[x].val["pct_matches"]
        /\ pc = "returned" => outcome = Return(errors)

\* a sweep over a pool has returned an array whose cells are not all alike
C1_Witness ==
    /\ ~IsFalseNegatives(sweep)
    /\ sweep.num_workers > 1
    /\ pc = "returned"
    /\ Len(sweep_args) > 1
    /\ \E c, d \in DOMAIN errors : errors[c] # errors[d]

\* C2 as stated: in compute_false_negatives_parallel every evaluated setting
\* carries its rate under the field the reducer reads, and a sweep whose
\* settings were all evaluated without error does not end in an error.
C2_AsStated ==
    IsFalseNegatives(sweep) =>
        /\ \A i \in EvaluatedSettings :
              trace.computed[i].exc = "none" =>
                  result_key(sweep) \in DOMAIN trace.computed[i].val
        /\ (pc = "raised" /\ sweep.kw >= 1) => trace.raised # {}

\* C3: if the evaluation of a setting raises, the exception reaches the
\* caller of the sweep: no setting is evaluated twice, no result list is
\* handed to the reducer, no result array is made, and the sweep ends with
\* the exception of a failed setting.
C3_WorkerExceptionPropagates ==
    /\ \A i \in 1..Len(trace.evaluations) : trace.evaluations[i] <= 1
    /\ trace.raised # {} =>
          /\ pc \notin {"reduce", "scatter", "plot", "returned"}
          /\ errors = NoArray
          /\ pc = "raised" =>
                \E i \in trace.raised : outcome = Raise(trace.computed[i].exc)
          /\ pc = "get" => ~rs.success

\* a sweep over a pool has ended with the ValueError of one setting after
\* other settings were evaluated without error
C3_Witness ==
    /\ sweep.num_workers > 1
    /\ pc = "raised"
    /\ outcome = Raise("ValueError")
    /\ trace.raised # {}
    /\ \E i \in EvaluatedSettings : trace.computed[i].exc = "none"
    /\ errors = NoArray

\* the theta setting i was evaluated against, if its estimation gave one
ThetaUsed(i) ==
    IF trace.theta_used[i] = <<>> THEN None ELSE trace.theta_used[i][1]

\* get_theta was called at most once and every evaluated setting used the
\* same theta
ThetaEstimatedOnce ==
    /\ trace.get_theta_calls <= 1
    /\ \A i, j \in EvaluatedSettings : ThetaUsed(i) = ThetaUsed(j)

\* C9 as stated: within one sweep with kw >= 1, match-probability or
\* false-negative, theta is estimated once for the kw of the sweep and all
\* settings are evaluated against that one value.
C9_AsStated == sweep.kw >= 1 => ThetaEstimatedOnce

\* C9 amended: compute_match_probabilities and compute_scaled_probabilities
\* estimate theta once and evaluate all settings against that value;
\* compute_false_negatives_parallel estimates theta once for every setting
\* it evaluates.
C9_Amended ==
    /\ ~IsFalseNegatives(sweep) => ThetaEstimatedOnce
    /\ IsFalseNegatives(sweep) =>
          trace.get_theta_calls = Cardinality(EvaluatedSettings)

\* a match-probability sweep has evaluated several settings after one call
\* of get_theta
C9_Witness ==
    /\ ~IsFalseNegatives(sweep)
    /\ Reduced
    /\ Cardinality(EvaluatedSettings) >= 2
    /\ trace.get_theta_calls = 1

\* C10 as stated: for non-empty axis lists of any length,
\* compute_match_probabilities and compute_scaled_probabilities, their
\* settings evaluated without error, do not end in an error: they return
\* the array of the axes' shape.
C10_AsStated ==
    (~IsFalseNegatives(sweep) /\ pc = "raised") =>
        \/ sweep.kw = 0
        \/ trace.raised # {}

\* C11: in a sweep with num_workers > 1 the result array exists, and is
\* written, only after every submitted task has finished, the pool has been
\* closed and joined and all results have been collected: no task runs
\* while the array is written.
C11_NoWriteWhileTasksRun ==
    (sweep.num_workers > 1 /\ (errors # NoArray \/ trace.written # {})) =>
        /\ pool.state = "joined"
        /\ pool.running = {}
        /\ pool.taken = Len(sweep_args)
        /\ ready(rs)
        /\ EvaluatedSettings = 1..Len(sweep_args)
        /\ Len(result) = Len(sweep_args)
        /\ pc \in {"scatter", "plot", "returned", "raised"}

\* the reducer of a sweep over a pool is half way through its writes
C11_Witness ==
    /\ sweep.num_workers > 1
    /\ pc = "scatter"
    /\ trace.written # {}
    /\ ri < Len(result)
    /\ pool.state = "joined"

(***************************************************************************)
(* Claims about the wait loop of the parallel driver, checked under        *)
(* FairSpec.                                                               *)
(***************************************************************************)
\* the parallel driver has handed back one result per submitted setting
DriverReturnedAll ==
    /\ pool # None
    /\ pc = "reduce"
    /\ pool.state = "joined"
    /\ Len(result) = Len(sweep_args)

\* the parallel driver has ended with the exception of a failed task
DriverRaised ==
    /\ pool # None
    /\ pc = "raised"
    /\ pool.state = "joined"
    /\ trace.raised # {}

\* while a task is running or not handed in, the driver is in its wait loop
\* and holds no result, partial or whole
NoPartialResult ==
    (pool # None /\ (pool.running # {} \/ ~ready(rs))) =>
        /\ pc = "wait"
        /\ pool.state = "open"
        /\ result = <<>>
        /\ outcome = None
        /\ errors = NoArray

\* a printed progress line: remaining is between 1 and the number of
\* settings, percent complete is 100 - 100 * remaining / num_experiments
\* and lies within 0 to 100
ProgressInRange ==
    progress # None =>
        /\ progress.remaining \in 1..Len(sweep_args)
        /\ progress.pct_done =
              Frac(100 * Len(sweep_args) - 100 * progress.remaining, Len(sweep_args))
        /\ 0 <= progress.pct_done[1]
        /\ progress.pct_done[1] <= 100 * progress.pct_done[2]

\* from one printed progress line to the next the remaining tasks do not
\* increase
RemainingNeverIncreases ==
    (progress # None /\ progress' # None) => progress'.remaining <= progress.remaining

\* C12 as stated: if every task terminates the driver leaves its wait loop,
\* joins the pool and returns one result per submitted setting; while a task
\* has not terminated the driver does not return and holds no partial
\* result; the reported remaining tasks never increase and the reported
\* percent complete stays within 0 to 100.
C12_AsStated ==
    /\ (pc = "wait") ~> DriverReturnedAll
    /\ []NoPartialResult
    /\ []ProgressInRange
    /\ [][RemainingNeverIncreases]_progress

\* C12 amended: the same, the driver ending either with one result per
\* submitted setting or, when a task ended with an exception, with that
\* exception raised by rs.get() after the join.
C12_Amended ==
    /\ (pc = "wait") ~> (DriverReturnedAll \/ DriverRaised)
    /\ []NoPartialResult
    /\ []ProgressInRange
    /\ [][RemainingNeverIncreases]_progress

\* the driver has returned all results after a progress line printed when
\* some, not all, of several tasks were done
C12_Witness ==
    /\ DriverReturnedAll
    /\ Len(sweep_args) > 2
    /\ progress # None
    /\ progress.remaining > 0
    /\ progress.remaining < Len(sweep_args)

(***************************************************************************)
(* Claims about the records the driver is called with and the records it   *)
(* returns.                                                                *)
(***************************************************************************)
\* the field the worker function attaches to the record it is given
AttachedKey == IF IsFalseNegatives(sweep) THEN "pctFalse" ELSE "pct_matches"

\* the record rec with the worker's field attached and nothing else changed
Attached(rec, built) ==
    /\ AttachedKey \in DOMAIN rec
    /\ AttachedKey \notin DOMAIN built
    /\ rec = update(built, AttachedKey, rec[AttachedKey])

\* the cells written so far hold the field the reducer reads from the
\* returned records
ReducerReadsReturned ==
    (pc \in {"scatter", "plot", "returned"} /\ errors # NoArray) =>
        \A j \in 1..ri :
            errors[cell(sweep, result[j])] = result[j][result_key(sweep)]

\* C13: with num_workers > 1 the caller's settings records stay as built,
\* without the worker's field, the returned records carry it and the reducer
\* reads the returned records; with num_workers <= 1 the returned records
\* are the caller's records, updated in place, in list order.
C13_CallerRecords ==
    /\ Len(sweep_args) = Len(trace.built)
    /\ Len(result) <= Len(sweep_args)
    /\ ReducerReadsReturned
    /\ sweep.num_workers > 1 =>
          /\ sweep_args = trace.built
          /\ \A i \in 1..Len(sweep_args) : AttachedKey \notin DOMAIN sweep_args[i]
          /\ \A i \in 1..Len(result) : Attached(result[i], sweep_args[i])
    /\ sweep.num_workers <= 1 =>
          /\ \A i \in 1..Len(result) :
                result[i] = sweep_args[i] /\ Attached(result[i], trace.built[i])
          /\ \A i \in (Len(result) + 1)..Len(sweep_args) :
                sweep_args[i] = trace.built[i]

\* a pooled sweep of several settings has been collected and scattered: the
\* caller's records are still without the field the returned ones carry
C13_Witness ==
    /\ sweep.num_workers > 1
    /\ pc = "plot"
    /\ Len(result) > 1
    /\ ri = Len(result)
    /\ \A i \in 1..Len(result) :
          "pct_matches" \in DOMAIN result[i] /\ "pct_matches" \notin DOMAIN sweep_args[i]

====
